---- MODULE Spec2Model ----
(***************************************************************************)
(* git-commit-message: the provider router (_llm.py), the OpenAI chat      *)
(* adapter (_gpt.py), the shared prompt helpers (_llm_common.py) and the   *)
(* command-line adapter (_cli.py, _git.py).                                *)
(*                                                                         *)
(* A Python str is a finite sequence of text pieces (TLA+ strings): a      *)
(* piece is one character where the code looks inside the string (model    *)
(* names, backend reply text) and a literal phrase of the source where the *)
(* code only concatenates.  "+" and f-string interpolation are \o.         *)
(* Python's None is the value None below (for str | None) and NoInt (for   *)
(* int | None).                                                            *)
(***************************************************************************)
EXTENDS Integers, Sequences, FiniteSets, TLC

VARIABLES
  env,              \* os.environ: the variables the program reads
  entry,            \* which entry point the current invocation came through
  args,             \* the CLI's parsed Namespace and what git reports to it
  req,              \* keyword arguments of the current generation call
  fn,               \* the generation function that is running
  adapter,          \* the module whose function serves the call
  chosen_provider,  \* _llm: the local chosen_provider
  pc,               \* position inside the generation function
  chosen_model,     \* _gpt: the local chosen_model
  chosen_language,  \* _gpt: the local chosen_language
  sent,             \* the outbound backend calls of this invocation, in order
  resp,             \* the backend's reply to the last call
  outcome,          \* how the generation function ended
  built,            \* the instruction text built by the prompt builders
  cli,              \* the CLI run: position, exit code, output, commits
  earlier           \* history: some earlier call made through the router

vars == <<env, entry, args, req, fn, adapter, chosen_provider, pc, chosen_model,
          chosen_language, sent, resp, outcome, built, cli, earlier>>

(***************************************************************************)
(* Values                                                                  *)
(***************************************************************************)

\* Python's None where a str is expected; no program string holds this piece.
None == <<"<None>">>

\* Python's None where an int is expected.
NoInt == -1

\* Python truthiness of a str | None: None and "" are falsy.
Truthy(s) == s # None /\ s # <<>>

\* Python truthiness of an int | None: None and 0 are falsy.
TruthyInt(n) == n # NoInt /\ n # 0

\* x or y
Or(x, y) == IF Truthy(x) THEN x ELSE y

\* str.lower() on one character.
LowerChar(c) ==
  CASE c = "A" -> "a" [] c = "B" -> "b" [] c = "C" -> "c" [] c = "D" -> "d"
    [] c = "E" -> "e" [] c = "F" -> "f" [] c = "G" -> "g" [] c = "H" -> "h"
    [] c = "I" -> "i" [] c = "J" -> "j" [] c = "K" -> "k" [] c = "L" -> "l"
    [] c = "M" -> "m" [] c = "N" -> "n" [] c = "O" -> "o" [] c = "P" -> "p"
    [] c = "Q" -> "q" [] c = "R" -> "r" [] c = "S" -> "s" [] c = "T" -> "t"
    [] c = "U" -> "u" [] c = "V" -> "v" [] c = "W" -> "w" [] c = "X" -> "x"
    [] c = "Y" -> "y" [] c = "Z" -> "z" [] OTHER -> c

\* str.lower()
Lower(s) == [i \in 1..Len(s) |-> LowerChar(s[i])]

\* sub in s
Contains(s, sub) ==
  \E i \in 1..(Len(s) - Len(sub) + 1) : SubSeq(s, i, i + Len(sub) - 1) = sub

\* The characters str.strip() removes.
IsSpace(c) == c \in {" ", "\n", "\t", "\r"}

RECURSIVE LStrip(_)
LStrip(s) == IF s # <<>> /\ IsSpace(Head(s)) THEN LStrip(Tail(s)) ELSE s

RECURSIVE RStrip(_)
RStrip(s) ==
  IF s # <<>> /\ IsSpace(s[Len(s)]) THEN RStrip(SubSeq(s, 1, Len(s) - 1)) ELSE s

\* str.strip()
Strip(s) == RStrip(LStrip(s))

\* sep.join(parts)
RECURSIVE Join(_, _)
Join(sep, parts) ==
  IF parts = <<>> THEN <<>>
  ELSE IF Len(parts) = 1 THEN parts[1]
  ELSE parts[1] \o sep \o Join(sep, Tail(parts))

(***************************************************************************)
(* _llm.py: provider resolution                                            *)
(***************************************************************************)

openai == <<"o", "p", "e", "n", "a", "i">>
google == <<"g", "o", "o", "g", "l", "e">>
gemini == <<"g", "e", "m", "i", "n", "i">>

_infer_provider_from_model(model) ==
  IF Truthy(model) /\ Contains(Lower(model), gemini) THEN google ELSE openai

\* _resolve_provider with the explicit argument looked at before the environment.
_resolve_provider_explicit_first(e, explicit, model) ==
  LET env_val == e.GIT_COMMIT_MESSAGE_PROVIDER IN
  IF explicit \in {openai, google} THEN explicit
  ELSE IF env_val \in {openai, google} THEN env_val
  ELSE _infer_provider_from_model(model)

_resolve_provider(e, explicit, model) ==
  LET env_val == e.GIT_COMMIT_MESSAGE_PROVIDER IN
  IF env_val \in {openai, google} THEN env_val
  ELSE IF explicit \in {openai, google} THEN explicit
  ELSE _infer_provider_from_model(model)

(***************************************************************************)
(* _gpt.py: configuration resolution                                       *)
(***************************************************************************)

_DEFAULT_MODEL == <<"g", "p", "t", "-", "5", "-", "m", "i", "n", "i">>
_DEFAULT_LANGUAGE == <<"en-GB">>

\* _resolve_model with OPENAI_MODEL looked at before GIT_COMMIT_MESSAGE_MODEL.
_resolve_model_provider_first(e, model) ==
  Or(model, Or(e.OPENAI_MODEL, Or(e.GIT_COMMIT_MESSAGE_MODEL, _DEFAULT_MODEL)))

_resolve_model(e, model) ==
  Or(model, Or(e.GIT_COMMIT_MESSAGE_MODEL, Or(e.OPENAI_MODEL, _DEFAULT_MODEL)))

_resolve_language(e, language) ==
  Or(language, Or(e.GIT_COMMIT_MESSAGE_LANGUAGE, _DEFAULT_LANGUAGE))

(***************************************************************************)
(* Prompt construction.  The instruction text is kept phrase by phrase:    *)
(* the phrases that name bullets and the rationale are pieces of their     *)
(* own, the interpolated language and limit are spliced in between.        *)
(***************************************************************************)

\* _build_system_prompt that ignores single_line and always gives the bullet and
\* label guidelines.
_build_system_prompt_with_bullets(single_line, subject_max, language) ==
  LET max_len == IF TruthyInt(subject_max) THEN subject_max ELSE 72 IN
  <<"You are an expert Git commit message generator. ",
    "Always use '">> \o language \o <<"' spelling and style. ",
    "Return a single-line imperative subject only (<= ", ToString(max_len), " chars). ",
    "- Use ", "'-' bullets", "; keep each bullet short (<= 1 line).\n",
    "- The only allowed label is the equivalent of ", "'Rationale:'",
    " translated into the target language; do not add other headings or prefaces.\n">>

\* _gpt.py: the instruction text of the chat adapter.
_build_system_prompt(single_line, subject_max, language) ==
  LET max_len == IF TruthyInt(subject_max) THEN subject_max ELSE 72 IN
  IF single_line THEN
    <<"You are an expert Git commit message generator. ",
      "Always use '">> \o language \o <<"' spelling and style. ",
      "Return a single-line imperative subject only (<= ", ToString(max_len), " chars). ",
      "Do not include a body, ", "bullet points", ", or any ", "rationale", ". ",
      "Do not include any line breaks. ",
      "Consider the user-provided auxiliary context if present. ",
      "Return only the commit message text (no code fences or prefixes like 'Commit message:').">>
  ELSE
    <<"You are an expert Git commit message generator. ",
      "Always use '">> \o language \o <<"' spelling and style. ",
      "The subject line is mandatory: you MUST start the output with the subject as the very first non-empty line, ",
      "in imperative mood, and keep it <= ", ToString(max_len), " chars. ",
      "Insert exactly one blank line after the subject. ",
      "Never start with ", "bullets", ", headings, labels, or any other text. ",
      "Then include a body in this format.\n\n",
      "Example format (do not include the --- lines in the output):\n\n",
      "---\n\n",
      "<Subject line>\n\n",
      "- <detail 1>\n",
      "- <detail 2>\n",
      "- <detail N>\n\n",
      "<", "Rationale label", " translated into the target language>: ",
      "<1-2 concise sentences explaining the intent and why>\n\n",
      "---\n\n",
      "Guidelines:\n",
      "- The first non-empty line MUST be the subject line; include exactly one blank line after it.\n",
      "- Never place ", "bullets", ", headings, or labels before the subject line.\n",
      "- Use ", "'-' bullets", "; keep each bullet short (<= 1 line).\n",
      "- Prefer imperative mood verbs (Add, Fix, Update, Remove, Refactor, Document, etc.).\n",
      "- Focus on what changed and why; avoid copying diff hunks verbatim.\n",
      "- The only allowed label is the equivalent of ", "'Rationale:'",
      " translated into the target language; do not add other headings or prefaces.\n",
      "- Do not include the '---' delimiter lines, code fences, or any surrounding labels like 'Commit message:'.\n",
      "- Do not copy or reuse any example text verbatim; produce original content based on the provided diff and context.\n",
      "- If few details are necessary, include at least one bullet summarising the key change.\n",
      "- If you cannot provide any body content, still output the subject line; the subject line must never be omitted.\n",
      "- Consider the user-provided auxiliary context if present.\n",
      "Return only the commit message text in the above format (no code fences or extra labels).">>

\* _llm_common.py: the instruction text shared by the providers.
build_system_prompt(single_line, subject_max, language) ==
  LET max_len == IF TruthyInt(subject_max) THEN subject_max ELSE 72 IN
  IF single_line THEN
    <<"You are an expert Git commit message generator. ",
      "Always use '">> \o language \o <<"' spelling and style. ",
      "Return a single-line imperative subject only (<= ", ToString(max_len), " chars). ",
      "Do not include a body, ", "bullet points", ", or any ", "rationale", ". ",
      "Do not include any line breaks. ",
      "Consider the user-provided auxiliary context if present. ",
      "Return only the commit message text (no code fences or prefixes like 'Commit message:').">>
  ELSE
    <<"You are an expert Git commit message generator. ",
      "Always use '">> \o language \o <<"' spelling and style. ",
      "The subject line is mandatory: you MUST start the output with the subject as the very first non-empty line, ",
      "in imperative mood, and keep it <= ", ToString(max_len), " chars. ",
      "Insert exactly one blank line after the subject. ",
      "Never start with ", "bullets", ", headings, labels, or any other text. ",
      "Then include a body in this format.\n\n",
      "Example format (do not include the --- lines in the output):\n\n",
      "---\n\n",
      "<Subject line>\n\n",
      "- <detail 1>\n",
      "- <detail 2>\n",
      "- <detail N>\n\n",
      "<", "Rationale label", " translated into the target language>: ",
      "<1-2 concise sentences explaining the intent and why>\n\n",
      "---\n\n",
      "Guidelines:\n",
      "- The first non-empty line MUST be the subject line; include exactly one blank line after it.\n",
      "- Never place ", "bullets", ", headings, or labels before the subject line.\n",
      "- Use ", "'-' bullets", "; keep each bullet short (<= 1 line).\n",
      "- Prefer imperative mood verbs (Add, Fix, Update, Remove, Refactor, Document, etc.).\n",
      "- Focus on what changed and why; avoid copying diff hunks verbatim.\n",
      "- The only allowed label is the equivalent of ", "'Rationale:'",
      " translated into the target language; do not add other headings or prefaces.\n",
      "- Do not include the '---' delimiter lines, code fences, or any surrounding labels like 'Commit message:'.\n",
      "- Do not copy or reuse any example text verbatim; produce original content based on the provided diff and context.\n",
      "- If few details are necessary, include at least one bullet summarising the key change.\n",
      "- If you cannot provide any body content, still output the subject line; the subject line must never be omitted.\n",
      "- Consider the user-provided auxiliary context if present.\n",
      "Return only the commit message text in the above format (no code fences or extra labels).">>

\* _gpt.py: the leading system-role message.
_system_message(single_line, subject_max, language) ==
  [role |-> "system",
   content |-> _build_system_prompt(single_line, subject_max, language)]

\* _llm_common.py
resolve_language(e, language) ==
  Or(language, Or(e.GIT_COMMIT_MESSAGE_LANGUAGE, <<"en-GB">>))

HintHeader == <<"# Auxiliary context (user-provided)\n">>
DiffHeader == <<"# Changes (diff)\n">>

\* _llm_common.py: (hint_content, diff_content)
build_user_texts(diff, hint) ==
  [hint_content |-> IF Truthy(hint) THEN HintHeader \o hint ELSE None,
   diff_content |-> DiffHeader \o diff]

\* _llm_common.py
build_combined_prompt(diff, hint) ==
  LET t == build_user_texts(diff, hint)
      parts == (IF t.hint_content # None THEN <<t.hint_content>> ELSE <<>>)
               \o <<t.diff_content>>
  IN Join(<<"\n\n">>, parts)

\* _build_user_messages that tests `hint is not None` instead of `hint`.
_build_user_messages_empty_hint(diff, hint) ==
  LET hint_content == IF hint # None THEN HintHeader \o hint ELSE None
      diff_content == DiffHeader \o diff
      messages == (IF Truthy(hint_content)
                   THEN <<[role |-> "user", content |-> hint_content]>>
                   ELSE <<>>)
                  \o <<[role |-> "user", content |-> diff_content]>>
      parts == (IF hint_content # None THEN <<hint_content>> ELSE <<>>)
               \o <<diff_content>>
  IN [combined_prompt |-> Join(<<"\n\n">>, parts), messages |-> messages]

\* _build_user_messages that joins the debugging text with one line break.
_build_user_messages_one_newline(diff, hint) ==
  LET hint_content == IF Truthy(hint) THEN HintHeader \o hint ELSE None
      diff_content == DiffHeader \o diff
      messages == (IF Truthy(hint_content)
                   THEN <<[role |-> "user", content |-> hint_content]>>
                   ELSE <<>>)
                  \o <<[role |-> "user", content |-> diff_content]>>
      parts == (IF hint_content # None THEN <<hint_content>> ELSE <<>>)
               \o <<diff_content>>
  IN [combined_prompt |-> Join(<<"\n">>, parts), messages |-> messages]

\* _gpt.py: (combined_prompt, messages)
_build_user_messages(diff, hint) ==
  LET hint_content == IF Truthy(hint) THEN HintHeader \o hint ELSE None
      diff_content == DiffHeader \o diff
      messages == (IF Truthy(hint_content)
                   THEN <<[role |-> "user", content |-> hint_content]>>
                   ELSE <<>>)
                  \o <<[role |-> "user", content |-> diff_content]>>
      parts == (IF hint_content # None THEN <<hint_content>> ELSE <<>>)
               \o <<diff_content>>
  IN [combined_prompt |-> Join(<<"\n\n">>, parts), messages |-> messages]

(***************************************************************************)
(* The backend reply and the result container                              *)
(***************************************************************************)

\* getattr(resp, "usage", None) is None
NoUsage ==
  [is_none |-> TRUE, prompt_tokens |-> NoInt, completion_tokens |-> NoInt,
   total_tokens |-> NoInt]

Usage(p, c, t) ==
  [is_none |-> FALSE, prompt_tokens |-> p, completion_tokens |-> c,
   total_tokens |-> t]

\* No reply received.
NoResp == [choices |-> <<>>, id |-> None, usage |-> NoUsage]

\* _gpt.py: CommitMessageResult; NoResult stands for "no record".
NoResult ==
  [message |-> None, model |-> None, prompt |-> None, response_text |-> None,
   response_id |-> None, prompt_tokens |-> NoInt, completion_tokens |-> NoInt,
   total_tokens |-> NoInt]

CommitMessageResult(message, model, prompt, response_text, response_id, pt, ct, tt) ==
  [message |-> message, model |-> model, prompt |-> prompt,
   response_text |-> response_text, response_id |-> response_id,
   prompt_tokens |-> pt, completion_tokens |-> ct, total_tokens |-> tt]

\* How a generation function ended: it returned a str (text), returned a
\* CommitMessageResult (result), or raised (error names the raise statement).
NoOutcome == [kind |-> "none", error |-> "", text |-> None, result |-> NoResult]
Returned(text, result) ==
  [kind |-> "return", error |-> "", text |-> text, result |-> result]
Raised(error) ==
  [kind |-> "raise", error |-> error, text |-> None, result |-> NoResult]

(***************************************************************************)
(* _gpt.py: generate_commit_message and generate_commit_message_with_info, *)
(* each translated from its own body.                                      *)
(***************************************************************************)

\* gcm_resolve that only tests the key for None.
gcm_resolve_empty_key(e, r) ==
  [chosen_model |-> _resolve_model(e, r.model),
   chosen_language |-> _resolve_language(e, r.language),
   has_key |-> e.OPENAI_API_KEY # None]

\* generate_commit_message, lines 179-183: the locals and the credential check.
gcm_resolve(e, r) ==
  [chosen_model |-> _resolve_model(e, r.model),
   chosen_language |-> _resolve_language(e, r.language),
   has_key |-> Truthy(e.OPENAI_API_KEY)]

\* generate_commit_message, lines 187-198: the request sent to the backend.
gcm_request(r, model, language) ==
  LET user_messages == _build_user_messages(r.diff, r.hint).messages IN
  [model |-> model,
   messages |-> <<_system_message(r.single_line, r.subject_max, language)>>
                \o user_messages]

\* gcm_finish without .strip().
gcm_finish_no_strip(rp) ==
  IF rp.choices = <<>> THEN Raised("IndexError")
  ELSE LET content == rp.choices[1].content
           text == IF Truthy(content) THEN content ELSE <<>>
       IN IF text = <<>> THEN Raised("empty") ELSE Returned(text, NoResult)

\* generate_commit_message, lines 200-203.
gcm_finish(rp) ==
  IF rp.choices = <<>> THEN Raised("IndexError")
  ELSE LET content == rp.choices[1].content
           text == Strip(IF Truthy(content) THEN content ELSE <<>>)
       IN IF text = <<>> THEN Raised("empty") ELSE Returned(text, NoResult)

\* generate_commit_message_with_info, lines 223-227.
info_resolve(e, r) ==
  [chosen_model |-> _resolve_model(e, r.model),
   chosen_language |-> _resolve_language(e, r.language),
   has_key |-> Truthy(e.OPENAI_API_KEY)]

\* generate_commit_message_with_info, lines 230-240.
info_request(r, model, language) ==
  LET user_messages == _build_user_messages(r.diff, r.hint).messages IN
  [model |-> model,
   messages |-> <<_system_message(r.single_line, r.subject_max, language)>>
                \o user_messages]

\* info_usage that starts the counts at 0 instead of None.
info_usage_zero(rp) ==
  LET usage == rp.usage IN
  IF ~usage.is_none
  THEN [prompt_tokens |-> usage.prompt_tokens,
        completion_tokens |-> usage.completion_tokens,
        total_tokens |-> usage.total_tokens]
  ELSE [prompt_tokens |-> 0, completion_tokens |-> 0, total_tokens |-> 0]

\* generate_commit_message_with_info, lines 246-254: the token counts.
info_usage(rp) ==
  LET usage == rp.usage IN
  IF ~usage.is_none
  THEN [prompt_tokens |-> usage.prompt_tokens,
        completion_tokens |-> usage.completion_tokens,
        total_tokens |-> usage.total_tokens]
  ELSE [prompt_tokens |-> NoInt, completion_tokens |-> NoInt,
        total_tokens |-> NoInt]

\* info_finish that tests the trimmed text but returns the untrimmed one.
info_finish_untrimmed(r, model, rp) ==
  IF rp.choices = <<>> THEN Raised("IndexError")
  ELSE LET content == rp.choices[1].content
           raw == IF Truthy(content) THEN content ELSE <<>>
           combined_prompt == _build_user_messages(r.diff, r.hint).combined_prompt
       IN IF Strip(raw) = <<>> THEN Raised("empty")
          ELSE Returned(None,
                 CommitMessageResult(raw, model, combined_prompt, raw, rp.id,
                                     NoInt, NoInt, NoInt))

\* generate_commit_message_with_info, lines 242-265.
info_finish(r, model, rp) ==
  IF rp.choices = <<>> THEN Raised("IndexError")
  ELSE LET content == rp.choices[1].content
           response_text == Strip(IF Truthy(content) THEN content ELSE <<>>)
           combined_prompt == _build_user_messages(r.diff, r.hint).combined_prompt
           u == info_usage(rp)
       IN IF response_text = <<>> THEN Raised("empty")
          ELSE Returned(None,
                 CommitMessageResult(response_text, model, combined_prompt,
                                     response_text, rp.id, u.prompt_tokens,
                                     u.completion_tokens, u.total_tokens))

GCM == "generate_commit_message"
INFO == "generate_commit_message_with_info"

Resolve(f, e, r) == IF f = GCM THEN gcm_resolve(e, r) ELSE info_resolve(e, r)
Request(f, r, model, language) ==
  IF f = GCM THEN gcm_request(r, model, language)
  ELSE info_request(r, model, language)
Finish(f, r, model, rp) ==
  IF f = GCM THEN gcm_finish(rp) ELSE info_finish(r, model, rp)

(***************************************************************************)
(* Inputs                                                                  *)
(***************************************************************************)

\* Longest backend reply text, in characters.
MaxReplyLen == 2

SeqsUpTo(S, n) == UNION {[1..k -> S] : k \in 0..n}

\* message.content of a reply: None, or a text of blanks, line breaks and letters.
ReplyChars == {" ", "\n", "a"}
Contents == {None} \cup SeqsUpTo(ReplyChars, MaxReplyLen)

Usages ==
  {NoUsage, Usage(NoInt, NoInt, NoInt), Usage(0, 0, 0), Usage(11, 7, 18),
   Usage(11, NoInt, 18)}

\* What chat.completions.create can return: no choice at all, or one choice.
Replies ==
  [choices : {<<>>} \cup {<<[content |-> c]>> : c \in Contents},
   id : {None, <<"chatcmpl-1">>},
   usage : Usages]

m_gpt4o == <<"g", "p", "t", "-", "4", "o">>
m_o3 == <<"o", "3">>
m_gpt41 == <<"g", "p", "t", "-", "4", ".", "1">>
m_gemini2 == <<"g", "e", "m", "i", "n", "i", "-", "2">>
m_GEMINI == <<"G", "E", "M", "I", "N", "I">>
m_GeminiPro == <<"G", "e", "m", "i", "n", "i", "-", "P", "r", "o">>
m_not_gemini == <<"n", "o", "t", "-", "g", "e", "m", "i", "n", "i", "-", "3">>
m_gemin == <<"g", "e", "m", "i", "n">>

ApiKeys == {None, <<>>, <<"sk-test">>}

\* Environments of the calls made straight to the OpenAI adapter.
ApiEnvs ==
  [GIT_COMMIT_MESSAGE_PROVIDER : {None, google},
   OPENAI_API_KEY : ApiKeys,
   GIT_COMMIT_MESSAGE_MODEL : {None, <<>>, m_gpt4o},
   OPENAI_MODEL : {None, <<>>, m_o3},
   GIT_COMMIT_MESSAGE_LANGUAGE : {None, <<"ko-KR">>}]

Diffs == {<<"diff --git a/x b/x\n+foo">>}
Hints == {None, <<>>, <<"fixes flaky test">>}

\* (single_line, subject_max, language) as callers pass them.
Styles ==
  {[single_line |-> FALSE, subject_max |-> NoInt, language |-> None],
   [single_line |-> TRUE, subject_max |-> 50, language |-> <<"ja">>]}

MkReq(diff, hint, model, style, provider) ==
  [diff |-> diff, hint |-> hint, model |-> model,
   single_line |-> style.single_line, subject_max |-> style.subject_max,
   language |-> style.language, provider |-> provider]

NoReq == MkReq(<<>>, None, None, [single_line |-> FALSE, subject_max |-> NoInt,
                                  language |-> None], None)

ApiRequests ==
  {MkReq(d, h, m, s, None) :
     d \in Diffs, h \in Hints, m \in {None, <<>>, m_gpt41}, s \in Styles}

NoArgs ==
  [description |-> None, commit |-> FALSE, edit |-> FALSE, model |-> None,
   debug |-> FALSE]

\* What git reports to a CLI run.
NoGit == [in_repo |-> FALSE, staged |-> FALSE, diff |-> <<>>]

\* A CLI process that has not started: no exit code, nothing printed, no commit.
NoCli ==
  [pc |-> "idle", git |-> NoGit, exit_code |-> NoInt, stdout |-> <<>>,
   stderr |-> <<>>, commits |-> <<>>]

\* No instruction text built.
NoBuilt == [gpt |-> <<>>, common |-> <<>>]

(***************************************************************************)
(* The OpenAI adapter, step by step                                        *)
(***************************************************************************)

\* Lines 179-185 / 223-229: resolve the configuration, check the credential,
\* build the client.  A missing key raises before anything is sent.
gpt_Start(f, r) ==
  LET c == Resolve(f, env, r) IN
  /\ req' = r
  /\ fn' = f
  /\ adapter' = "_gpt"
  /\ chosen_model' = c.chosen_model
  /\ chosen_language' = c.chosen_language
  /\ sent' = <<>>
  /\ resp' = NoResp
  /\ IF c.has_key
     THEN pc' = "client" /\ outcome' = NoOutcome
     ELSE pc' = "done" /\ outcome' = Raised("config")

\* Lines 187-198 / 230-240: client.chat.completions.create(...) goes out.
gpt_Call ==
  /\ pc = "client"
  /\ adapter = "_gpt"
  /\ sent' = Append(sent, Request(fn, req, chosen_model, chosen_language))
  /\ pc' = "calling"
  /\ UNCHANGED <<env, entry, args, req, fn, adapter, chosen_provider,
                 chosen_model, chosen_language, resp, outcome, built, cli, earlier>>

\* The backend answers the call.
BackendReply ==
  /\ pc = "calling"
  /\ \E rp \in Replies : resp' = rp
  /\ pc' = "replied"
  /\ UNCHANGED <<env, entry, args, req, fn, adapter, chosen_provider,
                 chosen_model, chosen_language, sent, outcome, built, cli, earlier>>

\* BackendRaise with a retry: the failed call is issued again.
BackendRaise_retry ==
  /\ pc = "calling"
  /\ pc' = "client"
  /\ UNCHANGED <<env, entry, args, req, fn, adapter, chosen_provider,
                 chosen_model, chosen_language, sent, resp, outcome, built, cli, earlier>>

\* The call itself raises (transport or backend error): the exception leaves
\* the generation function, which has no try around the call.
BackendRaise ==
  /\ pc = "calling"
  /\ outcome' = Raised("backend")
  /\ pc' = "done"
  /\ UNCHANGED <<env, entry, args, req, fn, adapter, chosen_provider,
                 chosen_model, chosen_language, sent, resp, built, cli, earlier>>

\* Lines 200-203 / 242-265: trim the text, raise when empty, else return.
gpt_Finish ==
  /\ pc = "replied"
  /\ adapter = "_gpt"
  /\ outcome' = Finish(fn, req, chosen_model, resp)
  /\ pc' = "done"
  /\ UNCHANGED <<env, entry, args, req, fn, adapter, chosen_provider,
                 chosen_model, chosen_language, sent, resp, built, cli, earlier>>

\* A caller invokes one of the adapter's two functions directly (the package
\* exports them as generate_commit_message_openai / ..._with_info_openai).
ApiCall ==
  /\ entry = "api"
  /\ pc = "idle"
  /\ \E f \in {GCM, INFO}, r \in ApiRequests : gpt_Start(f, r)
  /\ UNCHANGED <<env, entry, args, chosen_provider, built, cli, earlier>>

\* The caller has the result (or the exception); the call's frame is gone and
\* the next call starts from nothing but the environment.
\* No call through the router has been recorded.
NoCall ==
  [valid |-> FALSE, env_provider |-> None, provider |-> None, model |-> None,
   chosen |-> None, adapter |-> "none"]

\* The call that is ending: what the router was given and what it chose.
ThisCall ==
  [valid |-> TRUE, env_provider |-> env.GIT_COMMIT_MESSAGE_PROVIDER,
   provider |-> req.provider, model |-> req.model,
   chosen |-> chosen_provider, adapter |-> adapter]

\* The call returns or raises to its caller; its frame is gone.  In a session
\* of router calls the history may keep this call as the earlier one.
Return ==
  /\ entry \in {"api", "router", "session"}
  /\ pc = "done"
  /\ req' = NoReq
  /\ fn' = "none"
  /\ adapter' = "none"
  /\ chosen_provider' = None
  /\ pc' = "idle"
  /\ chosen_model' = None
  /\ chosen_language' = None
  /\ sent' = <<>>
  /\ resp' = NoResp
  /\ outcome' = NoOutcome
  /\ \E c \in (IF entry = "session" THEN {earlier, ThisCall} ELSE {earlier}) :
       earlier' = c
  /\ UNCHANGED <<env, entry, args, built, cli>>

Idle(e, en) ==
  /\ env = e
  /\ entry = en
  /\ args = NoArgs
  /\ req = NoReq
  /\ fn = "none"
  /\ adapter = "none"
  /\ chosen_provider = None
  /\ pc = "idle"
  /\ chosen_model = None
  /\ chosen_language = None
  /\ sent = <<>>
  /\ resp = NoResp
  /\ outcome = NoOutcome
  /\ built = NoBuilt
  /\ cli = NoCli
  /\ earlier = NoCall

Init == \E e \in ApiEnvs : Idle(e, "api")

Next == ApiCall \/ Return \/ gpt_Call \/ BackendReply \/ BackendRaise \/ gpt_Finish

\* Direct calls of the OpenAI adapter.
Spec == Init /\ [][Next]_vars

(***************************************************************************)
(* _llm.py: the provider router                                            *)
(***************************************************************************)

m_OpenAI == <<"O", "p", "e", "n", "A", "I">>
m_azure == <<"a", "z", "u", "r", "e">>

RouterEnvs ==
  [GIT_COMMIT_MESSAGE_PROVIDER : {None, <<>>, openai, google, m_OpenAI, gemini},
   OPENAI_API_KEY : {None, <<"sk-test">>},
   GIT_COMMIT_MESSAGE_MODEL : {None},
   OPENAI_MODEL : {None},
   GIT_COMMIT_MESSAGE_LANGUAGE : {None}]

RouterModels ==
  {None, <<>>, m_gpt41, m_gemini2, m_GEMINI, m_GeminiPro, m_not_gemini, m_gemin}

RouterRequests ==
  {MkReq(d, None, m, [single_line |-> FALSE, subject_max |-> NoInt,
                      language |-> None], p) :
     d \in Diffs, m \in RouterModels, p \in {None, openai, google, m_azure}}

\* A session of router calls: the process environment changes between calls.
SessionProviders == {None, openai, google}

SessionEnvs ==
  [GIT_COMMIT_MESSAGE_PROVIDER : SessionProviders,
   OPENAI_API_KEY : {<<"sk-test">>},
   GIT_COMMIT_MESSAGE_MODEL : {None},
   OPENAI_MODEL : {None},
   GIT_COMMIT_MESSAGE_LANGUAGE : {None}]

SessionRequests ==
  {MkReq(d, None, m, [single_line |-> FALSE, subject_max |-> NoInt,
                      language |-> None], p) :
     d \in Diffs, m \in {None, m_gpt41, m_gemini2},
     p \in {None, openai, google}}

\* The requests a caller of the router makes.
RouterInputs == IF entry = "session" THEN SessionRequests ELSE RouterRequests

\* The _gemini adapter takes the call (its module is not among the sources).
gemini_Start(f, r) ==
  /\ req' = r
  /\ fn' = f
  /\ adapter' = "_gemini"
  /\ chosen_model' = None
  /\ chosen_language' = None
  /\ sent' = <<>>
  /\ resp' = NoResp
  /\ outcome' = NoOutcome
  /\ pc' = "gemini"

\* The _gemini adapter ends: it returns a trimmed non-empty message or raises.
gemini_Serve ==
  /\ pc = "gemini"
  /\ adapter = "_gemini"
  /\ \E o \in {Raised("config"), Raised("backend"), Raised("empty"),
               IF fn = GCM
               THEN Returned(<<"a">>, NoResult)
               ELSE Returned(None, CommitMessageResult(<<"a">>, req.model, None,
                                <<"a">>, None, NoInt, NoInt, NoInt))} :
        outcome' = o
  /\ pc' = "done"
  /\ UNCHANGED <<env, entry, args, req, fn, adapter, chosen_provider,
                 chosen_model, chosen_language, sent, resp, built, cli, earlier>>

\* A router that remembers the provider it resolved in an earlier call.
llm_generate_commit_message_cached ==
  /\ entry \in {"router", "session"}
  /\ pc = "idle"
  /\ \E r \in RouterInputs :
       /\ chosen_provider' = IF earlier.valid
                              THEN earlier.chosen
                              ELSE _resolve_provider(env, r.provider, r.model)
       /\ IF chosen_provider' = google
          THEN gemini_Start(GCM, r)
          ELSE gpt_Start(GCM, r)
  /\ UNCHANGED <<env, entry, args, built, cli, earlier>>

\* _llm.generate_commit_message, lines 34-61.
llm_generate_commit_message ==
  /\ entry \in {"router", "session"}
  /\ pc = "idle"
  /\ \E r \in RouterInputs :
       /\ chosen_provider' = _resolve_provider(env, r.provider, r.model)
       /\ IF chosen_provider' = google
          THEN gemini_Start(GCM, r)
          ELSE gpt_Start(GCM, r)
  /\ UNCHANGED <<env, entry, args, built, cli, earlier>>

\* _llm.generate_commit_message_with_info, lines 64-91.
llm_generate_commit_message_with_info ==
  /\ entry \in {"router", "session"}
  /\ pc = "idle"
  /\ \E r \in RouterInputs :
       /\ chosen_provider' = _resolve_provider(env, r.provider, r.model)
       /\ IF chosen_provider' = google
          THEN gemini_Start(INFO, r)
          ELSE gpt_Start(INFO, r)
  /\ UNCHANGED <<env, entry, args, built, cli, earlier>>

InitRouter == \E e \in RouterEnvs : Idle(e, "router")

NextRouter ==
  \/ llm_generate_commit_message
  \/ llm_generate_commit_message_with_info
  \/ gemini_Serve
  \/ gpt_Call
  \/ BackendReply
  \/ BackendRaise
  \/ gpt_Finish
  \/ Return

\* Calls made through the router.
SpecRouter == InitRouter /\ [][NextRouter]_vars

\* Between two calls the caller sets or unsets GIT_COMMIT_MESSAGE_PROVIDER;
\* _resolve_provider reads os.environ anew in each call (line 26).
environ_Set ==
  /\ entry = "session"
  /\ pc = "idle"
  /\ \E v \in SessionProviders \ {env.GIT_COMMIT_MESSAGE_PROVIDER} :
       env' = [env EXCEPT !.GIT_COMMIT_MESSAGE_PROVIDER = v]
  /\ UNCHANGED <<entry, args, req, fn, adapter, chosen_provider, pc,
                 chosen_model, chosen_language, sent, resp, outcome, built,
                 cli, earlier>>

InitSession == \E e \in SessionEnvs : Idle(e, "session")

NextSession ==
  \/ llm_generate_commit_message
  \/ llm_generate_commit_message_with_info
  \/ environ_Set
  \/ gemini_Serve
  \/ gpt_Call
  \/ BackendReply
  \/ BackendRaise
  \/ gpt_Finish
  \/ Return

\* A session of router calls interleaved with environment changes.
SpecSession == InitSession /\ [][NextSession]_vars

(***************************************************************************)
(* Building the instruction text                                           *)
(***************************************************************************)

PromptEnvs ==
  [GIT_COMMIT_MESSAGE_PROVIDER : {None},
   OPENAI_API_KEY : {None},
   GIT_COMMIT_MESSAGE_MODEL : {None},
   OPENAI_MODEL : {None},
   GIT_COMMIT_MESSAGE_LANGUAGE : {None, <<"de">>}]

SubjectMaxes == {NoInt, 0, 1, 50, 72, 100}
Languages == {None, <<>>, <<"ja">>, <<"ko-KR">>, <<"fr">>}

\* A provider resolves the language and builds its instructions: _gpt.py with
\* its own copy (_system_message, lines 59-66), the shared helper in
\* _llm_common.py (lines 16-65) for the others.
BuildInstructions ==
  /\ entry = "prompt"
  /\ \E single_line \in BOOLEAN, subject_max \in SubjectMaxes, language \in Languages :
       /\ req' = MkReq(<<>>, None, None,
                       [single_line |-> single_line, subject_max |-> subject_max,
                        language |-> language], None)
       /\ chosen_language' = _resolve_language(env, language)
       /\ built' =
            [gpt |-> _system_message(single_line, subject_max,
                                     _resolve_language(env, language)).content,
             common |-> build_system_prompt(single_line, subject_max,
                                            resolve_language(env, language))]
  /\ UNCHANGED <<env, entry, args, fn, adapter, chosen_provider, pc,
                 chosen_model, sent, resp, outcome, cli, earlier>>

InitPrompt == \E e \in PromptEnvs : Idle(e, "prompt")

NextPrompt == BuildInstructions

SpecPrompt == InitPrompt /\ [][NextPrompt]_vars

(***************************************************************************)
(* _cli.py and _git.py: one run of the command-line program                *)
(***************************************************************************)

CliEnvs ==
  [GIT_COMMIT_MESSAGE_PROVIDER : {None, google},
   OPENAI_API_KEY : {None, <<"sk-test">>},
   GIT_COMMIT_MESSAGE_MODEL : {None},
   OPENAI_MODEL : {None},
   GIT_COMMIT_MESSAGE_LANGUAGE : {None}]

\* argparse: description is a str or None, --model a str or None, the rest flags.
CliArgs ==
  [description : {None, <<"fixes flaky test">>},
   commit : BOOLEAN,
   edit : BOOLEAN,
   model : {None, m_gpt41, m_gemini2},
   debug : BOOLEAN]

GitStates == [in_repo : BOOLEAN, staged : BOOLEAN, diff : Diffs]

\* Return codes of the git commit subprocess.
GitCommitCodes == {0, 1, 128}

\* The process ends with `code`; out and err are what it printed.
Exit(code, out, err, commits) ==
  cli' = [cli EXCEPT !.pc = "exited", !.exit_code = code, !.stdout = out,
                     !.stderr = err, !.commits = commits]

\* main (lines 167-181) up to the generation call of _run (lines 73-114).
main_Start ==
  /\ entry = "cli"
  /\ cli.pc = "idle"
  /\ \E a \in CliArgs, g \in GitStates :
       /\ args' = a
       /\ IF a.edit /\ ~a.commit
          THEN \* main: --edit needs --commit
               /\ cli' = [cli EXCEPT !.pc = "exited", !.exit_code = 2,
                                     !.stderr = <<"edit-needs-commit">>]
               /\ UNCHANGED <<req, fn, adapter, pc, chosen_model,
                              chosen_language, sent, resp, outcome, earlier>>
          ELSE IF ~g.in_repo
          THEN \* get_repo_root raises RuntimeError, which nothing catches
               /\ cli' = [cli EXCEPT !.pc = "exited", !.git = g, !.exit_code = 1,
                                     !.stderr = <<"traceback">>]
               /\ UNCHANGED <<req, fn, adapter, pc, chosen_model,
                              chosen_language, sent, resp, outcome, earlier>>
          ELSE IF ~g.staged
          THEN \* has_staged_changes is False
               /\ cli' = [cli EXCEPT !.pc = "exited", !.git = g, !.exit_code = 2,
                                     !.stderr = <<"nothing-staged">>]
               /\ UNCHANGED <<req, fn, adapter, pc, chosen_model,
                              chosen_language, sent, resp, outcome, earlier>>
          ELSE \* the functions imported from ._gpt are called
               /\ cli' = [cli EXCEPT !.pc = "generating", !.git = g]
               /\ gpt_Start(IF a.debug THEN INFO ELSE GCM,
                            MkReq(g.diff, a.description, a.model,
                                  [single_line |-> FALSE, subject_max |-> NoInt,
                                   language |-> None], None))
  /\ UNCHANGED <<env, entry, chosen_provider, built, earlier>>

\* run_Finish that exits 0 once git commit has run, whatever it returned.
run_Finish_ignores_returncode ==
  /\ entry = "cli"
  /\ cli.pc = "generating"
  /\ pc = "done"
  /\ IF outcome.kind = "raise"
     THEN Exit(3, <<>>, <<"generation-failed">>, cli.commits)
     ELSE LET message == IF args.debug THEN outcome.result.message ELSE outcome.text
              out == IF args.debug THEN <<"debug", message>> ELSE <<message>>
          IN IF ~args.commit
             THEN Exit(0, out, <<>>, cli.commits)
             ELSE \/ \E rc \in GitCommitCodes :
                       Exit(0, IF args.debug THEN out ELSE <<>>, <<>>,
                            Append(cli.commits,
                                   [message |-> message, edit |-> args.edit,
                                    returncode |-> rc]))
                  \/ \* git cannot be run: OSError, re-raised as RuntimeError
                     Exit(1, IF args.debug THEN out ELSE <<>>, <<"traceback">>,
                          cli.commits)
  /\ UNCHANGED <<env, entry, args, req, fn, adapter, chosen_provider, pc,
                 chosen_model, chosen_language, sent, resp, outcome, built, earlier>>

\* _run, lines 115-164: after the generation call.
run_Finish ==
  /\ entry = "cli"
  /\ cli.pc = "generating"
  /\ pc = "done"
  /\ IF outcome.kind = "raise"
     THEN Exit(3, <<>>, <<"generation-failed">>, cli.commits)
     ELSE LET message == IF args.debug THEN outcome.result.message ELSE outcome.text
              out == IF args.debug THEN <<"debug", message>> ELSE <<message>>
          IN IF ~args.commit
             THEN Exit(0, out, <<>>, cli.commits)
             ELSE \/ \E rc \in GitCommitCodes :
                       Exit(rc, IF args.debug THEN out ELSE <<>>, <<>>,
                            Append(cli.commits,
                                   [message |-> message, edit |-> args.edit,
                                    returncode |-> rc]))
                  \/ \* git cannot be run: OSError, re-raised as RuntimeError
                     Exit(1, IF args.debug THEN out ELSE <<>>, <<"traceback">>,
                          cli.commits)
  /\ UNCHANGED <<env, entry, args, req, fn, adapter, chosen_provider, pc,
                 chosen_model, chosen_language, sent, resp, outcome, built, earlier>>

InitCli == \E e \in CliEnvs : Idle(e, "cli")

NextCli ==
  \/ main_Start
  \/ gpt_Call
  \/ BackendReply
  \/ BackendRaise
  \/ gpt_Finish
  \/ run_Finish

\* One run of the command-line program.
SpecCli == InitCli /\ [][NextCli]_vars

(***************************************************************************)
(* Properties                                                              *)
(***************************************************************************)

\* The six letters of "gemini", each in either case.
GeminiAnyCase ==
  <<{"g", "G"}, {"e", "E"}, {"m", "M"}, {"i", "I"}, {"n", "N"}, {"i", "I"}>>

\* The model name holds "gemini" somewhere, whatever the case of its letters.
NamesGemini(model) ==
  /\ model # None
  /\ \E i \in 1..Len(model) :
       /\ i + 5 <= Len(model)
       /\ \A k \in 1..6 : model[i + k - 1] \in GeminiAnyCase[k]

\* The provider the documented resolution order gives.
DocumentedProvider(e, explicit, model) ==
  IF e.GIT_COMMIT_MESSAGE_PROVIDER = openai THEN openai
  ELSE IF e.GIT_COMMIT_MESSAGE_PROVIDER = google THEN google
  ELSE IF explicit = openai THEN openai
  ELSE IF explicit = google THEN google
  ELSE IF NamesGemini(model) THEN google
  ELSE openai

\* C1: whatever the provider environment value, the explicit provider and the
\* model name of a router call, the provider the router resolved is the first
\* match of: the environment value when it is exactly "openai" or "google";
\* the explicit argument when it is "openai" or "google"; "google" when the
\* model name contains "gemini" in any case; otherwise "openai".
C1_ResolveProviderOrder ==
  (entry = "router" /\ fn # "none") =>
    chosen_provider = DocumentedProvider(env, req.provider, req.model)

\* C1 witness: the environment says google, the caller says openai, the model
\* is an OpenAI one, and the router resolved google.
C1_Witness ==
  /\ entry = "router"
  /\ fn # "none"
  /\ env.GIT_COMMIT_MESSAGE_PROVIDER = google
  /\ req.provider = openai
  /\ req.model = m_gpt41
  /\ chosen_provider = google

\* A reply text that is absent, empty or made of white space only.
IsBlank(c) ==
  \/ c = None
  \/ \A i \in 1..Len(c) : c[i] \in {" ", "\n", "\t", "\r"}

\* The OpenAI adapter's function has ended after the backend replied.
Answered == adapter = "_gpt" /\ pc = "done" /\ outcome.error \notin {"config", "backend"}

\* C2: when the backend's reply text is None, empty or white space only, both
\* generation functions of the OpenAI adapter end by raising; and neither ever
\* returns an empty string or a record whose message is empty after trimming.
C2_BlankReplyRaises ==
  Answered =>
    /\ (resp.choices # <<>> /\ IsBlank(resp.choices[1].content)) =>
         outcome.kind = "raise"
    /\ outcome.kind = "return" =>
         /\ fn = GCM => ~IsBlank(outcome.text)
         /\ fn = INFO => ~IsBlank(outcome.result.message)

\* C2 witness: generate_commit_message_with_info got a reply of a blank and a
\* line break, and raised.
C2_Witness ==
  /\ Answered
  /\ fn = INFO
  /\ resp.choices # <<>>
  /\ resp.choices[1].content = <<" ", "\n">>
  /\ outcome.kind = "raise"

\* C3: with OPENAI_API_KEY unset or empty, a call of either generation
\* function of the OpenAI adapter ends at once with the configuration error
\* and has made no outbound backend call.
C3_MissingKeyFailsBeforeCall ==
  (adapter = "_gpt" /\ env.OPENAI_API_KEY \in {None, <<>>}) =>
    /\ pc = "done"
    /\ outcome.kind = "raise"
    /\ outcome.error = "config"
    /\ Len(sent) = 0

\* C3 witness: the key is the empty string, other overrides are set, and the
\* call has failed.
C3_Witness ==
  /\ adapter = "_gpt"
  /\ env.OPENAI_API_KEY = <<>>
  /\ env.GIT_COMMIT_MESSAGE_MODEL = m_gpt4o
  /\ req.hint = <<"fixes flaky test">>
  /\ outcome.error = "config"

\* C4: an invocation never makes more than one outbound call; one that passed
\* the credential check and ended has made exactly one; and when the call
\* raised or the reply was empty after trimming, the invocation raised with
\* that one call made.
C4_ExactlyOneCall ==
  adapter = "_gpt" =>
    /\ Len(sent) <= 1
    /\ (pc = "done" /\ outcome.error # "config") => Len(sent) = 1
    /\ (pc = "done" /\ resp = NoResp /\ outcome.error # "config") =>
         outcome.kind = "raise"
    /\ (pc = "done" /\ resp.choices # <<>> /\ IsBlank(resp.choices[1].content)) =>
         (outcome.kind = "raise" /\ Len(sent) = 1)

\* C4 witness: the backend call raised; the invocation ended raising, with
\* one call made.
C4_Witness ==
  /\ adapter = "_gpt"
  /\ pc = "done"
  /\ outcome = Raised("backend")
  /\ Len(sent) = 1

\* The first value of a list that is neither None nor empty.
RECURSIVE FirstNonEmpty(_)
FirstNonEmpty(xs) ==
  IF Len(xs) = 1 THEN xs[1]
  ELSE IF xs[1] # None /\ xs[1] # <<>> THEN xs[1]
  ELSE FirstNonEmpty(Tail(xs))

\* C5 as stated: the model the OpenAI adapter uses is the first non-empty of
\* the explicit argument, OPENAI_MODEL, GIT_COMMIT_MESSAGE_MODEL, "gpt-5-mini".
C5_ProviderSpecificFirst ==
  adapter = "_gpt" =>
    chosen_model = FirstNonEmpty(<<req.model, env.OPENAI_MODEL,
                                   env.GIT_COMMIT_MESSAGE_MODEL, _DEFAULT_MODEL>>)

\* C5 amended: the model the OpenAI adapter uses, and sends to the backend,
\* is the first non-empty of the explicit argument, GIT_COMMIT_MESSAGE_MODEL,
\* OPENAI_MODEL, "gpt-5-mini": the generic variable goes before the
\* provider-specific one.
C5_GenericFirst ==
  adapter = "_gpt" =>
    /\ chosen_model = FirstNonEmpty(<<req.model, env.GIT_COMMIT_MESSAGE_MODEL,
                                      env.OPENAI_MODEL, _DEFAULT_MODEL>>)
    /\ \A i \in 1..Len(sent) : sent[i].model = chosen_model

\* C5 witness: no explicit model, both variables set to different names, and
\* the call went out with the generic variable's name.
C5_Witness ==
  /\ adapter = "_gpt"
  /\ req.model = None
  /\ env.GIT_COMMIT_MESSAGE_MODEL = m_gpt4o
  /\ env.OPENAI_MODEL = m_o3
  /\ Len(sent) = 1
  /\ sent[1].model = m_gpt4o

IsUser(msg) == msg.role = "user"

\* The user items a request with this diff and hint must carry.
DocumentedItems(diff, hint) ==
  IF hint = None \/ hint = <<>>
  THEN <<[role |-> "user", content |-> <<"# Changes (diff)\n">> \o diff]>>
  ELSE <<[role |-> "user",
          content |-> <<"# Auxiliary context (user-provided)\n">> \o hint],
         [role |-> "user", content |-> <<"# Changes (diff)\n">> \o diff]>>

\* C6: the user items of every request sent are the diff item alone when the
\* hint is None or empty, and the hint item followed by the diff item when the
\* hint is non-empty; the single system message comes before them; and the
\* shared helper build_user_texts gives the same two texts.
C6_ContentItems ==
  /\ \A i \in 1..Len(sent) :
       LET msgs == sent[i].messages IN
       /\ SelectSeq(msgs, IsUser) = DocumentedItems(req.diff, req.hint)
       /\ msgs[1].role = "system"
       /\ Tail(msgs) = DocumentedItems(req.diff, req.hint)
       /\ msgs[Len(msgs)].content = <<"# Changes (diff)\n">> \o req.diff
  /\ adapter = "_gpt" =>
       LET t == build_user_texts(req.diff, req.hint)
           d == DocumentedItems(req.diff, req.hint)
       IN /\ t.diff_content = d[Len(d)].content
          /\ t.hint_content = (IF Len(d) = 2 THEN d[1].content ELSE None)

\* C6 witness: a request with a hint went out as system, hint, diff.
C6_Witness ==
  /\ Len(sent) = 1
  /\ req.hint = <<"fixes flaky test">>
  /\ Len(sent[1].messages) = 3
  /\ sent[1].messages[2].content =
       <<"# Auxiliary context (user-provided)\n", "fixes flaky test">>

\* The other generation function of the adapter.
Other(f) == IF f = GCM THEN INFO ELSE GCM

\* The message a returned outcome carries.
MessageOf(f, o) == IF f = GCM THEN o.text ELSE o.result.message

\* C7: at every point of a call of one generation function, the other one,
\* given the same request, environment and reply, resolves the same
\* configuration, fails the credential check in the same cases, sends the same
\* model and message list, raises in the same cases, and returns the same
\* message text.
C7_SameComputation ==
  adapter = "_gpt" =>
    LET c == Resolve(Other(fn), env, req) IN
    /\ c.chosen_model = chosen_model
    /\ c.chosen_language = chosen_language
    /\ c.has_key = ~(pc = "done" /\ outcome = Raised("config"))
    /\ \A i \in 1..Len(sent) :
         sent[i] = Request(Other(fn), req, chosen_model, chosen_language)
    /\ Answered =>
         LET o == Finish(Other(fn), req, chosen_model, resp) IN
         /\ o.kind = outcome.kind
         /\ o.error = outcome.error
         /\ outcome.kind = "return" =>
              MessageOf(Other(fn), o) = MessageOf(fn, outcome)

\* C7 witness: generate_commit_message returned a trimmed text.
C7_Witness ==
  /\ Answered
  /\ fn = GCM
  /\ resp.choices # <<>>
  /\ resp.choices[1].content = <<" ", "a">>
  /\ outcome.kind = "return"
  /\ outcome.text = <<"a">>

\* C8: in a returned CommitMessageResult the three token counts are all None
\* when the reply had no usage, and are the reply's own three values when it
\* had.
C8_TokenCounts ==
  (Answered /\ fn = INFO /\ outcome.kind = "return") =>
    LET r == outcome.result IN
    /\ resp.usage.is_none =>
         /\ r.prompt_tokens = NoInt
         /\ r.completion_tokens = NoInt
         /\ r.total_tokens = NoInt
    /\ ~resp.usage.is_none =>
         /\ r.prompt_tokens = resp.usage.prompt_tokens
         /\ r.completion_tokens = resp.usage.completion_tokens
         /\ r.total_tokens = resp.usage.total_tokens

\* C8 witness: a record was returned for a reply without usage.
C8_Witness ==
  /\ Answered
  /\ fn = INFO
  /\ outcome.kind = "return"
  /\ resp.usage.is_none
  /\ outcome.result.total_tokens = NoInt

\* Phrases by which an instruction text names bullets at all.
BulletPhrases ==
  {"bullet points", "bullets", "'-' bullets", "- <detail 1>\n", "- <detail 2>\n",
   "- <detail N>\n\n"}

\* Phrases that ask for the "-" bullet format.
BulletFormatPhrases ==
  {"'-' bullets", "- <detail 1>\n", "- <detail 2>\n", "- <detail N>\n\n"}

\* Phrases that name the rationale label.
RationaleLabelPhrases == {"Rationale label", "'Rationale:'"}

Mentions(p, phrases) == \E i \in 1..Len(p) : p[i] \in phrases

\* Every piece of p among `phrases` stands right after the opening of the
\* sentence "Do not include a body, bullet points, or any rationale."
OnlyForbidden(p, phrases) ==
  \A i \in 1..Len(p) :
    p[i] \in phrases =>
      \E j \in 1..(i - 1) :
        /\ p[j] = "Do not include a body, "
        /\ i - j <= 3

\* The two instruction texts of the last build.
BuiltTexts == {built.gpt, built.common}

\* C9 as stated: instructions built with single_line=true name neither bullets
\* nor a rationale label; those built with single_line=false name both.
C9_SingleLineNeverMentions ==
  built # NoBuilt =>
    \A p \in BuiltTexts :
      /\ req.single_line =>
           (~Mentions(p, BulletPhrases) /\ ~Mentions(p, RationaleLabelPhrases))
      /\ ~req.single_line =>
           (Mentions(p, BulletPhrases) /\ Mentions(p, RationaleLabelPhrases))

\* C9 amended: instructions built with single_line=true never ask for "-"
\* bullets nor name a rationale label, and name bullet points and rationale
\* only inside the sentence that forbids them; instructions built with
\* single_line=false always ask for '-' bullets and name the translated
\* 'Rationale:' label.
C9_SingleLineOnlyForbids ==
  built # NoBuilt =>
    \A p \in BuiltTexts :
      /\ req.single_line =>
           /\ ~Mentions(p, BulletFormatPhrases)
           /\ ~Mentions(p, RationaleLabelPhrases)
           /\ OnlyForbidden(p, BulletPhrases \cup {"rationale"})
      /\ ~req.single_line =>
           /\ Mentions(p, {"'-' bullets"})
           /\ Mentions(p, {"'Rationale:'"})

\* C9 witness: texts were built for single_line=true with a limit and a
\* language given, and for that build both hold the forbidding sentence.
C9_Witness ==
  /\ built # NoBuilt
  /\ req.single_line
  /\ req.subject_max = 50
  /\ req.language = <<"ko-KR">>
  /\ \A p \in BuiltTexts : Mentions(p, {"bullet points"})

\* The adapter module that serves a provider.
AdapterOf(provider) == IF provider = google THEN "_gemini" ELSE "_gpt"

SameInputs ==
  /\ earlier.valid
  /\ earlier.env_provider = env.GIT_COMMIT_MESSAGE_PROVIDER
  /\ earlier.provider = req.provider
  /\ earlier.model = req.model

\* C11: the router holds no state between calls.  In a session of router calls
\* interleaved with environment changes, the provider and adapter chosen by
\* the call in progress are those the documented order gives for that call's
\* explicit provider, its model name and the environment value at the call,
\* whatever was called or set before; and a call with the same three inputs
\* as an earlier call chooses the same provider and adapter as that one.
C11_RouterStateless ==
  (entry = "session" /\ fn # "none") =>
    /\ chosen_provider =
         DocumentedProvider(env, req.provider, req.model)
    /\ adapter = AdapterOf(chosen_provider)
    /\ SameInputs => /\ chosen_provider = earlier.chosen
                     /\ adapter = earlier.adapter

\* An earlier call chose google from the environment; the environment was
\* then changed and the same request now goes to the OpenAI adapter.
C11_Witness ==
  /\ entry = "session"
  /\ fn # "none"
  /\ earlier.valid
  /\ earlier.env_provider = google
  /\ earlier.chosen = google
  /\ earlier.provider = req.provider
  /\ earlier.model = req.model
  /\ env.GIT_COMMIT_MESSAGE_PROVIDER = None
  /\ chosen_provider = openai
  /\ adapter = "_gpt"

\* The contents of the items, in order, with one blank line between them.
RECURSIVE BlankLineJoined(_)
BlankLineJoined(items) ==
  IF Len(items) = 0 THEN <<>>
  ELSE IF Len(items) = 1 THEN items[1].content
  ELSE BlankLineJoined(SubSeq(items, 1, Len(items) - 1))
       \o <<"\n\n">> \o items[Len(items)].content

\* generate_commit_message_with_info of the OpenAI adapter has returned.
InfoReturned ==
  adapter = "_gpt" /\ fn = INFO /\ pc = "done" /\ outcome.kind = "return"

\* C12: in every CommitMessageResult the OpenAI adapter returns, prompt is the
\* contents of the user items sent to the backend in that call, in order,
\* joined by one blank line: the hint text, a blank line and the diff text
\* when the hint is non-empty, the diff text alone otherwise; message equals
\* response_text; and model is the model name sent to the backend.
C12_ResultFields ==
  InfoReturned =>
    LET result == outcome.result
        hint_text == <<"# Auxiliary context (user-provided)\n">> \o req.hint
        diff_text == <<"# Changes (diff)\n">> \o req.diff
    IN /\ Len(sent) = 1
       /\ result.prompt = BlankLineJoined(SelectSeq(sent[1].messages, IsUser))
       /\ result.prompt = (IF req.hint = None \/ req.hint = <<>>
                           THEN diff_text
                           ELSE hint_text \o <<"\n\n">> \o diff_text)
       /\ result.message = result.response_text
       /\ result.model = sent[1].model

\* C12 witness: a call with a hint and an explicit model returned a result
\* whose prompt is the hint item, a blank line and the diff item.
C12_Witness ==
  /\ InfoReturned
  /\ req.hint = <<"fixes flaky test">>
  /\ req.model = m_gpt41
  /\ Len(sent[1].messages) = 3
  /\ outcome.result.model = m_gpt41
  /\ outcome.result.message = <<"a">>
  /\ outcome.result.prompt =
       <<"# Auxiliary context (user-provided)\n", "fixes flaky test", "\n\n",
         "# Changes (diff)\n", "diff --git a/x b/x\n+foo">>

\* The CLI run never called a generation function.
NeverGenerated == adapter = "none" /\ sent = <<>> /\ outcome = NoOutcome

\* The git commit step ran at most once, with --commit given, after the
\* generation call returned, and with exactly the generated message.
CommitDiscipline ==
  /\ Len(cli.commits) <= 1
  /\ cli.pc # "exited" => cli.commits = <<>>
  /\ cli.commits # <<>> =>
       /\ args.commit
       /\ pc = "done"
       /\ outcome.kind = "return"
       /\ cli.commits[1].message = MessageOf(fn, outcome)
       /\ cli.commits[1].edit = args.edit

\* The exit of a run that found staged changes, by the outcome of generation
\* and --commit; commit_step is what holds once git commit is due.
ExitAfterStaged(commit_step) ==
  IF outcome.kind = "raise"
  THEN cli.exit_code = 3 /\ cli.commits = <<>>
  ELSE IF ~args.commit
  THEN /\ cli.exit_code = 0
       /\ cli.stdout # <<>>
       /\ cli.stdout[Len(cli.stdout)] = MessageOf(fn, outcome)
       /\ cli.commits = <<>>
  ELSE commit_step

\* git commit ran and its return code is the exit code of the run.
CommitCodeReturned ==
  /\ Len(cli.commits) = 1
  /\ cli.exit_code = cli.commits[1].returncode

====
